---- MODULE Spec2Model ----
(***************************************************************************)
(* A model of ip_anonymize.py: the address codec (ip2long, long2ip,        *)
(* swap32), the call of the external scrambling primitive                  *)
(* (anonymize_ipv4), and the streaming record transformer (main).          *)
(*                                                                         *)
(* Strings that the program parses or formats are sequences of one         *)
(* character strings, so that parsing and formatting are computed.         *)
(* The address word has four bytes of ByteBits bits each (the program's    *)
(* bytes have 8 bits; products of 32 bit words overflow TLC's integers),   *)
(* and every mask, shift and range of the program is scaled with it.       *)
(***************************************************************************)
EXTENDS Integers, Sequences, FiniteSets, TLC

\* ------------------------------------------------------------------ bounds

\* Bits of one byte of the address word (8 in the program).
ByteBits == 2

\* The most records the model reads from the input stream.
MaxRecords == 2

\* ------------------------------------------------------- results of calls

Ok(v) == [ok |-> TRUE, val |-> v, err |-> ""]
Raise(e, v) == [ok |-> FALSE, val |-> v, err |-> e]

\* ------------------------------------------------------------------ state

VARIABLES
    pc,          \* main's position
    argv,        \* sys.argv
    lib_loaded,  \* ctypes.cdll.LoadLibrary: "unknown", "loaded" or "failed"
    init_r,      \* the status scramble_init_from_file returned (<<>>: not called)
    key,         \* the key the library was initialized with (-1: none)
    fieldnames,  \* r.fieldnames, the header of the input
    records,     \* the input records read so far, as DictReader returned them
    result,      \* the record of the current iteration
    outfile,     \* the rows written to stdout so far, the header first
    stdin_reads, \* the number of reads of stdin
    calls,       \* the calls of lib.scramble_ip4 made so far
    fired,       \* the current iteration: per slot that ran, what it read and stored
    journal,     \* per written record, the slots that ran for it
    error,       \* the exception that ended the run ("": none)
    exitcode,    \* the exit status of the process (-1: still running)
    ip_a,        \* codec on its own: the address string
    ip_b,        \* codec on its own: a second address string
    parsed_a,    \* codec on its own: ip2long(ip_a)
    anon_a,      \* codec on its own: anonymize_ipv4 of ip_a
    anon_b,      \* codec on its own: anonymize_ipv4 of ip_b
    phase        \* codec on its own: "off", "input", "parsed_a" or "anonymized"

mainVars == <<pc, argv, lib_loaded, init_r, fieldnames, records, result, outfile,
              stdin_reads, fired, journal, error, exitcode>>
codecVars == <<ip_a, ip_b, parsed_a, anon_a, anon_b, phase>>
vars == <<mainVars, key, calls, codecVars>>

NoResult == [ok |-> FALSE, val |-> <<>>, err |-> "", calls |-> <<>>]

\* Before main runs.
MainIdle ==
    /\ pc = "start"
    /\ lib_loaded = "unknown"
    /\ init_r = <<>>
    /\ fieldnames = <<>>
    /\ records = <<>>
    /\ result = <<>>
    /\ outfile = <<>>
    /\ stdin_reads = 0
    /\ fired = {}
    /\ journal = <<>>
    /\ error = ""
    /\ exitcode = -1

CodecOff ==
    /\ ip_a = <<>>
    /\ ip_b = <<>>
    /\ parsed_a = Ok(0)
    /\ anon_a = NoResult
    /\ anon_b = NoResult
    /\ phase = "off"

\* ------------------------------------------------------------- arithmetic

Pow(b, e) == b ^ e

\* 0x100 scaled: the number of values of one byte.
Byte == Pow(2, ByteBits)

\* The width of the address word: four bytes.
WordBits == 4 * ByteBits

\* 1 << 32 scaled.
WordRange == Pow(2, WordBits)

Words == 0 .. (WordRange - 1)

\* x << n and x >> n on Python's unbounded integers.
Shl(x, n) == x * Pow(2, n)
Shr(x, n) == x \div Pow(2, n)

\* v & (0xFF << 8*i): the i-th byte field of v, left in place.
ByteField(v, i) == ((v \div Pow(Byte, i)) % Byte) * Pow(Byte, i)

\* The i-th byte of v as a number (i = 0 is the least significant).
ByteAt(v, i) == (v \div Pow(Byte, i)) % Byte

\* ------------------------------------------------------------- characters

DigitChars == <<"0", "1", "2", "3", "4", "5", "6", "7", "8", "9">>
HexChars == DigitChars \o <<"a", "b", "c", "d", "e", "f">>

IsDigit(c) == \E i \in 1 .. Len(DigitChars) : DigitChars[i] = c
IsHexDigit(c) == \E i \in 1 .. Len(HexChars) : HexChars[i] = c
HexVal(c) == (CHOOSE i \in 1 .. Len(HexChars) : HexChars[i] = c) - 1

\* "%d" of a number >= 0.
RECURSIVE Dec(_)
Dec(n) == IF n < 10 THEN <<DigitChars[n + 1]>>
          ELSE Dec(n \div 10) \o <<DigitChars[(n % 10) + 1]>>

\* The value of a digit string in a base; -1 when a character is no digit
\* of that base.
RECURSIVE DigitsVal(_, _, _)
DigitsVal(s, base, acc) ==
    IF s = <<>> THEN acc
    ELSE IF ~IsHexDigit(Head(s)) \/ HexVal(Head(s)) >= base THEN -1
    ELSE DigitsVal(Tail(s), base, acc * base + HexVal(Head(s)))

\* The parts of a string between its dots.
RECURSIVE Split(_, _)
Split(s, cur) ==
    IF s = <<>> THEN <<cur>>
    ELSE IF Head(s) = "." THEN <<cur>> \o Split(Tail(s), <<>>)
    ELSE Split(Tail(s), Append(cur, Head(s)))

RECURSIVE Join(_)
Join(parts) ==
    IF Len(parts) = 1 THEN parts[1]
    ELSE parts[1] \o <<".">> \o Join(Tail(parts))

\* ----------------------------------------------------------------- codec

\* One number of an address as the C library's inet_aton reads it
\* (strtoul with base 0): a leading 0x is hexadecimal, a leading 0 is
\* octal, anything else decimal; -1 when the part is no such number.
NumTok(p) ==
    IF p = <<>> \/ ~IsDigit(p[1]) THEN -1
    ELSE IF Len(p) >= 2 /\ p[1] = "0" /\ p[2] = "x"
         THEN IF Len(p) = 2 THEN -1 ELSE DigitsVal(SubSeq(p, 3, Len(p)), 16, 0)
    ELSE IF p[1] = "0" THEN DigitsVal(p, 8, 0)
    ELSE DigitsVal(p, 10, 0)

\* The value of the numbers of an address: every number but the last is
\* one byte, the last fills the bytes that remain.
RECURSIVE aton_value(_, _)
aton_value(vals, i) ==
    IF i = Len(vals) THEN vals[i]
    ELSE vals[i] * Pow(Byte, 4 - i) + aton_value(vals, i + 1)

\* The address as its four bytes, most significant first ("!L").
word_bytes(val) == <<ByteAt(val, 3), ByteAt(val, 2), ByteAt(val, 1), ByteAt(val, 0)>>

aton_numbers(vals, n) ==
    IF n > 4 THEN Raise("illegal IP address string", <<>>)
    ELSE IF \E i \in 1 .. n : vals[i] < 0
        THEN Raise("illegal IP address string", <<>>)
    ELSE IF \E i \in 1 .. (n - 1) : vals[i] > Byte - 1
        THEN Raise("illegal IP address string", <<>>)
    ELSE IF vals[n] > Pow(Byte, 5 - n) - 1
        THEN Raise("illegal IP address string", <<>>)
    ELSE Ok(word_bytes(aton_value(vals, 1)))

aton_parts(parts) == aton_numbers([i \in 1 .. Len(parts) |-> NumTok(parts[i])], Len(parts))

\* socket.inet_aton, the C library's: one to four numbers separated by
\* dots.  The result is the packed address.
inet_aton(ip_str) == aton_parts(Split(ip_str, <<>>))

\* struct.unpack("!L", b)[0]: the four bytes as a big-endian number.
unpack_L(b) == ((b[1] * Byte + b[2]) * Byte + b[3]) * Byte + b[4]

\* struct.pack("!L", num): fails outside [0, 1 << 32).
pack_L(num) ==
    IF num < 0 \/ num >= WordRange THEN Raise("struct.error", <<>>)
    ELSE Ok(word_bytes(num))

\* socket.inet_ntoa: "%d.%d.%d.%d" of the four bytes.
inet_ntoa(b) == Join([i \in 1 .. 4 |-> Dec(b[i])])

unpacked(packed) ==
    IF packed.ok THEN Ok(unpack_L(packed.val)) ELSE Raise(packed.err, 0)

ip2long(ip_str) == unpacked(inet_aton(ip_str))

formatted(packed) ==
    IF packed.ok THEN Ok(inet_ntoa(packed.val)) ELSE Raise(packed.err, <<>>)

long2ip(num) == formatted(pack_L(num))

\* swap32 with the masks of the two middle bytes exchanged: the middle
\* bytes are dropped.
swap32_masks_exchanged(x) ==
    ByteField(Shl(x, 3 * ByteBits), 3) + ByteField(Shl(x, ByteBits), 1)
        + ByteField(Shr(x, ByteBits), 2) + ByteField(Shr(x, 3 * ByteBits), 0)

swap32(x) ==
    ByteField(Shl(x, 3 * ByteBits), 3) + ByteField(Shl(x, ByteBits), 2)
        + ByteField(Shr(x, ByteBits), 1) + ByteField(Shr(x, 3 * ByteBits), 0)

\* ------------------------------------------------- the external primitive

\* The keys a key file can hold.
Keys == {3, 5}

\* The pad bit the keyed primitive draws for bit i of an address from the
\* i leading bits p before it.
PadBit(k, i, p) == (k \div Pow(2, (p + i) % 3)) % 2

\* Bit i (from the most significant, of weight w) of the scrambled word:
\* the bit of x flipped by a pad that depends on the key and on the i bits
\* before it; the first pass_bits bits pass unchanged.
scrambled_bit(k, x, pass_bits, i, w) ==
    (((x \div w) % 2) + (IF i < pass_bits THEN 0 ELSE PadBit(k, i, x \div (2 * w)))) % 2

\* The keyed prefix-preserving permutation of a word in host order.
RECURSIVE PrefixPreserve(_, _, _, _, _)
PrefixPreserve(k, x, pass_bits, i, w) ==
    IF i = WordBits THEN 0
    ELSE scrambled_bit(k, x, pass_bits, i, w) * w
            + PrefixPreserve(k, x, pass_bits, i + 1, w \div 2)

\* ntohl / htonl on the little-endian host the program runs on.
ntohl(x) ==
    ((ByteAt(x, 0) * Byte + ByteAt(x, 1)) * Byte + ByteAt(x, 2)) * Byte + ByteAt(x, 3)

\* What ctypes makes of a Python integer passed as c_uint32, and of a
\* uint32 returned through restype c_int32.
as_c_uint32(v) == v % WordRange
as_c_int32(u) == IF u >= WordRange \div 2 THEN u - WordRange ELSE u

\* lib.scramble_ip4 with argtypes [c_uint32, c_int] and restype c_int32:
\* the library reads and returns the address in network byte order.
scramble_ip4(k, input, pass_bits) ==
    as_c_int32(ntohl(PrefixPreserve(k, ntohl(as_c_uint32(input)), pass_bits, 0,
                                    WordRange \div 2)))

\* ---------------------------------------------------------- anonymization

BITS_TO_SCRAMBLE == WordBits

\* The call of the shared library function, with what it returned.
primitive_call(anonymize_function, reversed_bytes, pass_bits) ==
    [arg |-> reversed_bytes, bits |-> pass_bits,
     ret |-> scramble_ip4(anonymize_function, reversed_bytes, pass_bits)]

anonymized(text, call) ==
    [ok |-> text.ok, val |-> text.val, err |-> text.err, calls |-> <<call>>]

\* anonymized_result = ret & mask; return long2ip(swap32(anonymized_result))
anonymize_return(call, mask) ==
    anonymized(long2ip(swap32(call.ret % (mask + 1))), call)

anonymize_parsed(anonymize_function, parsed) ==
    IF ~parsed.ok
    THEN [ok |-> FALSE, val |-> <<>>, err |-> parsed.err, calls |-> <<>>]
    ELSE anonymize_return(
            primitive_call(anonymize_function, swap32(parsed.val),
                           WordBits - BITS_TO_SCRAMBLE),
            Shl(1, WordBits) - 1)

\* anonymize_ipv4 that hands the primitive the address as parsed, without
\* reversing its bytes.
anonymize_unreversed(anonymize_function, parsed) ==
    IF ~parsed.ok
    THEN [ok |-> FALSE, val |-> <<>>, err |-> parsed.err, calls |-> <<>>]
    ELSE anonymize_return(
            primitive_call(anonymize_function, parsed.val, WordBits - BITS_TO_SCRAMBLE),
            Shl(1, WordBits) - 1)

anonymize_ipv4_unreversed(anonymize_function, ip4_str) ==
    anonymize_unreversed(anonymize_function, ip2long(ip4_str))

\* anonymize_ipv4 whose count of bits to leave unscrambled grows with the
\* calls made so far.
anonymize_counting(anonymize_function, parsed) ==
    IF ~parsed.ok
    THEN [ok |-> FALSE, val |-> <<>>, err |-> parsed.err, calls |-> <<>>]
    ELSE anonymize_return(
            primitive_call(anonymize_function, swap32(parsed.val), Len(calls)),
            Shl(1, WordBits) - 1)

anonymize_ipv4_counting(anonymize_function, ip4_str) ==
    anonymize_counting(anonymize_function, ip2long(ip4_str))

\* anonymize_ipv4(anonymize_function, ip4_str): the string it returns or
\* the exception it raises, and the calls of the primitive it made.
anonymize_ipv4(anonymize_function, ip4_str) ==
    anonymize_parsed(anonymize_function, ip2long(ip4_str))

\* ------------------------------------------------ the codec on its own

\* The bytes the sample addresses are made of.
OctetSample == {0, 1, 2, Byte - 1}

Quad(a, b, c, d) == Join(<<Dec(a), Dec(b), Dec(c), Dec(d)>>)

\* Canonical dotted quads.
QuadStrs == {Quad(a, b, c, d) : a, b, c, d \in OctetSample}

\* The second address of a pair: every byte all zeros or all ones.
PairStrs == {Quad(a, b, c, d) : a, b, c, d \in {0, Byte - 1}}

\* What a part of a string that is no canonical dotted quad may be: empty,
\* a decimal number, a number with a leading zero, a number one past a
\* byte, a letter, a hexadecimal number.
Tokens == {<<>>, <<"1">>, <<"0", "1">>, Dec(Byte), <<"x">>, <<"0", "x", "1">>}

OddStrs ==
    {Join(p) : p \in UNION {[1 .. n -> Tokens] : n \in 1 .. 4}}
        \cup {Join([i \in 1 .. 5 |-> <<"1">>])}

CodecInit ==
    /\ ip_a \in QuadStrs \cup OddStrs
    /\ ip_b = <<>>
    /\ parsed_a = Ok(0)
    /\ anon_a = NoResult
    /\ anon_b = NoResult
    /\ phase = "input"
    /\ key = -1
    /\ calls = <<>>
    /\ argv = <<"ip_anonymize.py">>
    /\ MainIdle

\* ip2long(ip_a)
Parse ==
    /\ phase = "input"
    /\ parsed_a' = ip2long(ip_a)
    /\ phase' = "parsed_a"
    /\ UNCHANGED <<mainVars, key, calls, ip_a, ip_b, anon_a, anon_b>>

\* anonymize_ipv4 of the string and of a second address, with one
\* initialized library.
AnonymizePair ==
    /\ phase = "parsed_a"
    /\ parsed_a.ok
    /\ \E k \in Keys, b \in PairStrs :
        /\ key' = k
        /\ ip_b' = b
        /\ anon_a' = anonymize_ipv4(k, ip_a)
        /\ anon_b' = anonymize_ipv4(k, b)
    /\ calls' = calls \o anon_a'.calls \o anon_b'.calls
    /\ phase' = "anonymized"
    /\ UNCHANGED <<mainVars, ip_a, parsed_a>>

CodecNext == Parse \/ AnonymizePair

CodecSpec == CodecInit /\ [][CodecNext]_vars

\* ------------------------------------------------------------ main: inputs

\* How the program may be invoked: the sources are address fields, and
\* the targets range over names that make every aliasing happen: no
\* aliasing, the targets equal, a target equal to its own source, and a
\* target equal to the other slot's source.
Configs ==
    {<<s1, s2, t1, t2>> :
        s1 \in {"ip1", "ip2"}, s2 \in {"ip1", "ip2"},
        t1 \in {"ip2", "an1"}, t2 \in {"an1", "an2"}}

ProgArgs(c) == <<"ip_anonymize.py", "key", "lib">> \o c

\* Six arguments, or five, or seven.
ArgvChoices ==
    {ProgArgs(c) : c \in Configs}
        \cup {<<"ip_anonymize.py", "key", "lib", "ip1", "ip2", "an1">>,
              <<"ip_anonymize.py", "key", "lib", "ip1", "ip2", "an1", "an2", "more">>}

\* The header lines of the input: without and with the target fields, and
\* without the second address field.
Headers == {<<"ip1", "ip2">>, <<"ip1", "ip2", "an1", "an2">>, <<"ip1", "an1", "an2">>}

\* The statuses scramble_init_from_file may return.
InitStatuses == {0, 1, -1}

AddrA == <<"1", ".", "2", ".", "3", ".", "0">>
AddrB == <<"1", ".", "2", ".", "3", ".", "1">>
Malformed == <<"x">>
Old == <<"o", "l", "d">>

\* The values a cell of an input record may hold, per field.
CellValues(f) ==
    CASE f = "ip1" -> {<<>>, AddrA}
      [] f = "ip2" -> {<<>>, AddrA, AddrB, Malformed}
      [] f = "an1" -> {Old}
      [] OTHER -> {<<>>}

Range(seq) == {seq[i] : i \in 1 .. Len(seq)}

\* The records DictReader may return under a header: one cell per field.
Rows(h) == {r \in [Range(h) -> UNION {CellValues(f) : f \in Range(h)}] :
                \A f \in Range(h) : r[f] \in CellValues(f)}

\* ---------------------------------------------------------- main: helpers

ip1field == argv[4]
ip2field == argv[5]
anonymizedfield_1 == argv[6]
anonymizedfield_2 == argv[7]

\* result[k] = v on a dict.
Put(d, k, v) == [f \in (DOMAIN d) \cup {k} |-> IF f = k THEN v ELSE d[f]]

\* initialize_anon without its assertion of the status.
initialize_anon_unchecked(r) == Ok(0)

\* initialize_anon with an init_function that returns status r.
initialize_anon(r) ==
    IF r = 0 THEN Ok(0) ELSE Raise("AssertionError", 0)

\* A slot that leaves the target unset when anonymize_ipv4 raises, and
\* goes on.
slot_assign_skipping(res, source, target, n, a) ==
    IF ~a.ok
    THEN [ok |-> TRUE, err |-> "", res |-> res, calls |-> a.calls, fired |-> {}]
    ELSE [ok |-> TRUE, err |-> "", res |-> Put(res, target, a.val), calls |-> a.calls,
          fired |-> {[slot |-> n, read |-> res[source], wrote |-> a.val]}]

\* result[target] = a, for the value a that anonymize_ipv4 returned, or
\* the exception it raised.
slot_assign(res, source, target, n, a) ==
    IF ~a.ok
    THEN [ok |-> FALSE, err |-> a.err, res |-> res, calls |-> a.calls, fired |-> {}]
    ELSE [ok |-> TRUE, err |-> "", res |-> Put(res, target, a.val), calls |-> a.calls,
          fired |-> {[slot |-> n, read |-> res[source], wrote |-> a.val]}]

\* One slot of the loop body:
\*     if result[source]: result[target] = anonymize_ipv4(anon_fun, result[source])
\* the record after it, the calls of the primitive it made and, when the
\* assignment ran, what it read and stored; or the exception it raised.
Slot(res, source, target, anon_fun, n) ==
    IF source \notin DOMAIN res
    THEN [ok |-> FALSE, err |-> "KeyError", res |-> res, calls |-> <<>>, fired |-> {}]
    ELSE IF res[source] = <<>>
    THEN [ok |-> TRUE, err |-> "", res |-> res, calls |-> <<>>, fired |-> {}]
    ELSE slot_assign(res, source, target, n, anonymize_ipv4(anon_fun, res[source]))

\* A writerow that does not write a row equal to the row before it.
writerow_distinct(out, names, rowdict) ==
    IF ~((DOMAIN rowdict) \subseteq Range(names))
    THEN Raise("ValueError", out)
    ELSE IF Len(out) > 1 /\ out[Len(out)] = [i \in 1 .. Len(names) |->
                            IF names[i] \in DOMAIN rowdict THEN rowdict[names[i]]
                            ELSE <<>>]
    THEN Ok(out)
    ELSE Ok(Append(out, [i \in 1 .. Len(names) |->
                            IF names[i] \in DOMAIN rowdict THEN rowdict[names[i]]
                            ELSE <<>>]))

\* csv.DictWriter.writerow: a key that is no field name raises ValueError;
\* otherwise one cell per field name, empty for a missing key.
writerow(out, names, rowdict) ==
    IF ~((DOMAIN rowdict) \subseteq Range(names))
    THEN Raise("ValueError", out)
    ELSE Ok(Append(out, [i \in 1 .. Len(names) |->
                            IF names[i] \in DOMAIN rowdict THEN rowdict[names[i]]
                            ELSE <<>>]))

\* ---------------------------------------------------------- main: actions

Init ==
    /\ argv \in ArgvChoices
    /\ key = -1
    /\ calls = <<>>
    /\ MainIdle
    /\ CodecOff

\* sys.exit(1)
Exit1 ==
    /\ pc' = "exited"
    /\ exitcode' = 1

\* An exception nothing catches: the interpreter exits with status 1.
Crash(e) ==
    /\ pc' = "crashed"
    /\ error' = e
    /\ exitcode' = 1

\* if len(sys.argv) != 7: ... sys.exit(1)
CheckArgs ==
    /\ pc = "start"
    /\ IF Len(argv) # 7 THEN Exit1 ELSE pc' = "load" /\ UNCHANGED exitcode
    /\ UNCHANGED <<argv, lib_loaded, init_r, key, fieldnames, records, result,
                   outfile, stdin_reads, calls, fired, journal, error, codecVars>>

\* lib = ctypes.cdll.LoadLibrary(LIBPATH), sys.exit(1) when it raises
LoadLibrary ==
    /\ pc = "load"
    /\ \E loads \in BOOLEAN :
        IF loads
        THEN lib_loaded' = "loaded" /\ pc' = "init" /\ UNCHANGED exitcode
        ELSE lib_loaded' = "failed" /\ Exit1
    /\ UNCHANGED <<argv, init_r, key, fieldnames, records, result, outfile,
                   stdin_reads, calls, fired, journal, error, codecVars>>

\* initialize_anon(init_fun, SCRAMBLE_BLOWFISH, KEYPATH), sys.exit(1) when
\* it raises
InitializeAnon ==
    /\ pc = "init"
    /\ \E r \in InitStatuses :
        /\ init_r' = <<r>>
        /\ IF initialize_anon(r).ok
           THEN (\E k \in Keys : key' = k) /\ pc' = "header" /\ UNCHANGED exitcode
           ELSE Exit1 /\ UNCHANGED key
    /\ UNCHANGED <<argv, lib_loaded, fieldnames, records, result, outfile,
                   stdin_reads, calls, fired, journal, error, codecVars>>

\* r = csv.DictReader(infile); header = r.fieldnames;
\* w = csv.DictWriter(outfile, fieldnames=r.fieldnames); w.writeheader()
ReadHeader ==
    /\ pc = "header"
    /\ stdin_reads' = stdin_reads + 1
    /\ \/ \E h \in Headers :
            /\ fieldnames' = h
            /\ outfile' = Append(outfile, h)
            /\ pc' = "next"
            /\ UNCHANGED <<error, exitcode>>
       \/ \* an empty input: fieldnames is None and writeheader raises
          /\ Crash("TypeError")
          /\ UNCHANGED <<fieldnames, outfile>>
    /\ UNCHANGED <<argv, lib_loaded, init_r, key, records, result, calls, fired,
                   journal, codecVars>>

\* for result in r:
NextRecord ==
    /\ pc = "next"
    /\ stdin_reads' = stdin_reads + 1
    /\ \/ /\ Len(records) < MaxRecords
          /\ \E row \in Rows(fieldnames) :
                /\ records' = Append(records, row)
                /\ result' = row
          /\ fired' = {}
          /\ pc' = "slot1"
          /\ UNCHANGED exitcode
       \/ \* the input is exhausted: main returns
          /\ pc' = "done"
          /\ exitcode' = 0
          /\ UNCHANGED <<records, result, fired>>
    /\ UNCHANGED <<argv, lib_loaded, init_r, key, fieldnames, outfile, calls,
                   journal, error, codecVars>>

\* The step of one slot whose outcome is s, to position `after`.
SlotStep(s, after) ==
    /\ calls' = calls \o s.calls
    /\ IF s.ok
       THEN /\ result' = s.res
            /\ fired' = fired \cup s.fired
            /\ pc' = after
            /\ UNCHANGED <<error, exitcode>>
       ELSE /\ Crash(s.err)
            /\ UNCHANGED <<result, fired>>

\* if result[ip1field]: result[anonymizedfield_1] = anonymize_ipv4(...)
Slot1 ==
    /\ pc = "slot1"
    /\ SlotStep(Slot(result, ip1field, anonymizedfield_1, key, 1), "slot2")
    /\ UNCHANGED <<argv, lib_loaded, init_r, key, fieldnames, records, outfile,
                   stdin_reads, journal, codecVars>>

\* if result[ip2field]: result[anonymizedfield_2] = anonymize_ipv4(...)
Slot2 ==
    /\ pc = "slot2"
    /\ SlotStep(Slot(result, ip2field, anonymizedfield_2, key, 2), "write")
    /\ UNCHANGED <<argv, lib_loaded, init_r, key, fieldnames, records, outfile,
                   stdin_reads, journal, codecVars>>

\* The step of a writerow whose outcome is w.
Written(w) ==
    IF w.ok
    THEN /\ outfile' = w.val
         /\ journal' = Append(journal, fired)
         /\ pc' = "next"
         /\ UNCHANGED <<error, exitcode>>
    ELSE /\ Crash(w.err)
         /\ UNCHANGED <<outfile, journal>>

\* w.writerow(result)
WriteRow ==
    /\ pc = "write"
    /\ Written(writerow(outfile, fieldnames, result))
    /\ UNCHANGED <<argv, lib_loaded, init_r, key, fieldnames, records, result,
                   stdin_reads, calls, fired, codecVars>>

Next ==
    \/ CheckArgs
    \/ LoadLibrary
    \/ InitializeAnon
    \/ ReadHeader
    \/ NextRecord
    \/ Slot1
    \/ Slot2
    \/ WriteRow

Spec == Init /\ [][Next]_vars

\* ============================================================ properties

\* ------------------------------------------------------ what they speak of

\* A string of exactly four dot-separated decimal octets, each a byte.
DecimalOctet(p) ==
    /\ p # <<>>
    /\ \A i \in 1 .. Len(p) : IsDigit(p[i])
    /\ DigitsVal(p, 10, 0) <= Byte - 1

IsDottedQuad(s) ==
    /\ Len(Split(s, <<>>)) = 4
    /\ \A i \in 1 .. 4 : DecimalOctet(Split(s, <<>>)[i])

\* a*2^24 + b*2^16 + c*2^8 + d of a dotted quad.
OctetOf(s, i) == DigitsVal(Split(s, <<>>)[i], 10, 0)
QuadValue(s) ==
    OctetOf(s, 1) * Pow(Byte, 3) + OctetOf(s, 2) * Pow(Byte, 2)
        + OctetOf(s, 3) * Byte + OctetOf(s, 4)

\* The word with its four bytes in the opposite order.
Reversed(x) ==
    (x % Byte) * Pow(Byte, 3) + ((x \div Byte) % Byte) * Pow(Byte, 2)
        + ((x \div Pow(Byte, 2)) % Byte) * Byte + ((x \div Pow(Byte, 3)) % Byte)

\* The canonical text of a word.
QuadOf(x) ==
    Quad((x \div Pow(Byte, 3)) % Byte, (x \div Pow(Byte, 2)) % Byte,
         (x \div Byte) % Byte, x % Byte)

\* The number of leading bits two words share, counted bit by bit.
RECURSIVE SharedBits(_, _, _)
SharedBits(x, y, i) ==
    IF i = WordBits THEN WordBits
    ELSE IF (x \div Pow(2, WordBits - 1 - i)) % 2 = (y \div Pow(2, WordBits - 1 - i)) % 2
         THEN SharedBits(x, y, i + 1)
    ELSE i

SignedWords == (0 - WordRange \div 2) .. (WordRange \div 2 - 1)

\* The rows written after the header.
NumWritten == IF outfile = <<>> THEN 0 ELSE Len(outfile) - 1
Pos(f) == CHOOSE j \in 1 .. Len(fieldnames) : fieldnames[j] = f
Cell(i, f) == outfile[i + 1][Pos(f)]
InHeader(f) == f \in Range(fieldnames)
SourceOf(n) == IF n = 1 THEN ip1field ELSE ip2field
TargetOf(n) == IF n = 1 THEN anonymizedfield_1 ELSE anonymizedfield_2
Ran(i, n) == \E e \in journal[i] : e.slot = n

\* -------------------------------------------------------- the test's check

RECURSIVE bit_length(_)
bit_length(n) == IF n = 0 THEN 0 ELSE 1 + bit_length(n \div 2)

\* a ^ b
RECURSIVE Xor(_, _)
Xor(a, b) ==
    IF a = 0 /\ b = 0 THEN 0
    ELSE ((a + b) % 2) + 2 * Xor(a \div 2, b \div 2)

common_prefix_len(ip_x, ip_y) == WordBits - bit_length(Xor(ip_x, ip_y))

check_prefix_preservation(a, b, an_a, an_b) ==
    common_prefix_len(ip2long(a).val, ip2long(b).val)
        = common_prefix_len(ip2long(an_a).val, ip2long(an_b).val)

\* ------------------------------------------------------------------ C1

\* C1: prefix preservation.  With a prefix-preserving primitive, two valid
\* dotted-quad addresses anonymized with the same key come out as two
\* addresses that share exactly as many leading bits as the originals did,
\* as the test's check_prefix_preservation computes it and as counted bit
\* by bit on the addresses' values.
C1_PrefixPreservation ==
    (phase = "anonymized" /\ IsDottedQuad(ip_a) /\ IsDottedQuad(ip_b)) =>
        /\ anon_a.ok /\ anon_b.ok
        /\ IsDottedQuad(anon_a.val) /\ IsDottedQuad(anon_b.val)
        /\ check_prefix_preservation(ip_a, ip_b, anon_a.val, anon_b.val)
        /\ SharedBits(QuadValue(ip_a), QuadValue(ip_b), 0)
            = SharedBits(QuadValue(anon_a.val), QuadValue(anon_b.val), 0)

\* Two different addresses that share some but not all leading bits were
\* anonymized with a key that changes them.
C1_Witness ==
    /\ phase = "anonymized"
    /\ IsDottedQuad(ip_a)
    /\ key # 0
    /\ anon_a.ok /\ anon_a.val # ip_a
    /\ SharedBits(QuadValue(ip_a), QuadValue(ip_b), 0) \in 1 .. (WordBits - 1)

\* ------------------------------------------------------------------ C7

\* C7: strict parsing.  ip2long fails for every string that is not four
\* dot-separated decimal octets in the range of a byte, and for a string of
\* that form returns a*2^24 + b*2^16 + c*2^8 + d.
C7_StrictParsing ==
    (phase \in {"parsed_a", "anonymized"}) =>
        /\ parsed_a.ok <=> IsDottedQuad(ip_a)
        /\ parsed_a.ok => parsed_a.val = QuadValue(ip_a)

\* ------------------------------------------------------------------ C10

\* What C10 says of one call of anonymize_ipv4 on a string whose value is v.
ComputedAsClaimed(r, v) ==
    /\ Len(r.calls) = 1
    /\ r.calls[1].arg = Reversed(v)
    /\ r.calls[1].arg \in Words
    /\ r.calls[1].bits = 0
    /\ r.calls[1].ret \in SignedWords
    /\ Reversed(r.calls[1].ret % WordRange) \in Words
    /\ r.ok
    /\ r.val = QuadOf(Reversed(r.calls[1].ret % WordRange))
    /\ swap32(swap32(r.calls[1].arg)) = r.calls[1].arg
    /\ swap32(swap32(r.calls[1].ret % WordRange)) = r.calls[1].ret % WordRange

\* C10: the computation of anonymize_ipv4.  For an address the codec
\* accepts, the primitive is called exactly once, with the byte-reversed
\* value of the address and 0; whatever signed word it returns, the result
\* is the text of the byte-reversed unsigned value of that word; both words
\* are in range, formatting does not fail, and swap32 undoes itself.
C10_AnonymizeComputation ==
    (phase = "anonymized") =>
        /\ ComputedAsClaimed(anon_a, parsed_a.val)
        /\ IsDottedQuad(ip_a) => ComputedAsClaimed(anon_a, QuadValue(ip_a))
        /\ ComputedAsClaimed(anon_b, QuadValue(ip_b))
        /\ calls = anon_a.calls \o anon_b.calls

\* The primitive returned a negative word for an address with four
\* different bytes.
C10_Witness ==
    /\ phase = "anonymized"
    /\ IsDottedQuad(ip_a)
    /\ anon_a.ok
    /\ anon_a.calls[1].ret < 0
    /\ Cardinality({OctetOf(ip_a, i) : i \in 1 .. 4}) = 4

\* ------------------------------------------------------------------ C2

\* The header with a name appended when it is not in it.
WithField(h, f) == IF f \in Range(h) THEN h ELSE Append(h, f)

\* C2: the output header.  Once the header is written it holds the input
\* header's names in order plus the two target names, each added when the
\* input header lacks it; so no record with a populated target is refused
\* for want of its column.
C2_OutputHeader ==
    /\ outfile # <<>> =>
        outfile[1] = WithField(WithField(fieldnames, anonymizedfield_1), anonymizedfield_2)
    /\ error # "ValueError"

\* ------------------------------------------------------------------ C3

\* C3: the per-record mapping, slot by slot.  In every written record and
\* for each mapping, a non-empty value of the source field in the input
\* record gives a target cell that holds the anonymization of that value,
\* whatever the other mapping is or did.
C3_PerRecordMapping ==
    \A i \in 1 .. NumWritten : \A n \in {1, 2} :
        (SourceOf(n) \in DOMAIN records[i] /\ records[i][SourceOf(n)] # <<>>) =>
            /\ InHeader(TargetOf(n))
            /\ Cell(i, TargetOf(n)) = anonymize_ipv4(key, records[i][SourceOf(n)]).val

\* ------------------------------------------------------------------ C4

\* C4: the frame of the transform.  A written record has one cell per
\* header field, in header order under the unchanged header; every field
\* that is no target holds its input value; and a mapping whose source is
\* empty in the input record does not assign its target.
C4_Frame ==
    /\ outfile # <<>> => outfile[1] = fieldnames
    /\ \A i \in 1 .. NumWritten :
        /\ Len(outfile[i + 1]) = Len(fieldnames)
        /\ \A f \in Range(fieldnames) \ {anonymizedfield_1, anonymizedfield_2} :
                Cell(i, f) = records[i][f]
        /\ \A n \in {1, 2} :
                records[i][SourceOf(n)] = <<>> => ~Ran(i, n)

\* ------------------------------------------------------------------ C5

\* The cells of a record under the header.
RowCells(d) == [j \in 1 .. Len(fieldnames) |->
                    IF fieldnames[j] \in DOMAIN d THEN d[fieldnames[j]] ELSE <<>>]

\* The record after both slots.
Transform(rec) ==
    Slot(Slot(rec, ip1field, anonymizedfield_1, key, 1).res,
         ip2field, anonymizedfield_2, key, 2).res

\* C5: streaming order and row count.  The rows written are the
\* transforms of the first records read, in order; a record is written
\* before the next is read, so at most one record read is unwritten and
\* none is when the next read begins; a run that completes has written as
\* many rows as it read records and exits with 0.
C5_StreamingOrder ==
    /\ NumWritten <= Len(records)
    /\ Len(records) <= NumWritten + 1
    /\ pc = "next" => NumWritten = Len(records)
    /\ \A i \in 1 .. NumWritten : outfile[i + 1] = RowCells(Transform(records[i]))
    /\ stdin_reads <= Len(records) + 2
    /\ pc = "done" => (exitcode = 0 /\ NumWritten = Len(records)
                        /\ stdin_reads = Len(records) + 2)

\* A run completed after two different records, the second the same as
\* the first but for one field.
C5_Witness ==
    /\ pc = "done"
    /\ NumWritten = 2
    /\ records[1] # records[2]
    /\ outfile[2] # outfile[3]
    /\ journal[1] # {} /\ journal[2] # {}

\* ------------------------------------------------------------------ C6

\* The process exited with 1 and did nothing with the streams or the
\* primitive.
FailedAtStartup ==
    /\ pc = "exited"
    /\ exitcode = 1
    /\ stdin_reads = 0
    /\ calls = <<>>
    /\ outfile = <<>>
    /\ records = <<>>

\* C6: startup failures are fatal before any stream I/O.  A wrong count of
\* arguments, a library that does not load and an init status other than
\* zero each end the process with status 1 before stdin is read, the
\* primitive is called or anything is written; a run that finishes its
\* records exits with 0.
C6_StartupFatal ==
    /\ (Len(argv) # 7 /\ pc # "start") => FailedAtStartup
    /\ lib_loaded = "failed" => FailedAtStartup
    /\ (init_r # <<>> /\ init_r[1] # 0) => FailedAtStartup
    /\ (stdin_reads > 0 \/ calls # <<>> \/ outfile # <<>>) =>
            (Len(argv) = 7 /\ lib_loaded = "loaded" /\ init_r = <<0>> /\ key \in Keys)
    /\ pc = "exited" => exitcode = 1
    /\ pc = "done" => exitcode = 0

\* The init call returned a status other than zero.
C6_Witness ==
    /\ init_r # <<>>
    /\ init_r[1] # 0
    /\ pc = "exited"

\* ------------------------------------------------------------------ C8

Assignments == fired \cup UNION {journal[i] : i \in 1 .. Len(journal)}

====
